---- MODULE Spec2Model ----
(***************************************************************************)
(* Model of migrate.py: the line-by-line SQLite -> PostgreSQL dump         *)
(* converter.  Python strings are TLA+ strings; str.find, str.replace,     *)
(* str.strip, slicing, startswith and endswith are operators computed the  *)
(* way Python computes them.  One action models one iteration of the main  *)
(* loop (one input line), one action models the code after the loop.       *)
(***************************************************************************)
EXTENDS Integers, Sequences, FiniteSets, TLC

(* Longest input, in lines, that the model reads. *)
MaxLines == 5

VARIABLES
    lines,            \* the set of raw lines the input file is made of
    inp,              \* history, one [raw, line, in_table] per line read: the raw text,
                      \* the text after the substitutions, and whether foundTable held
                      \* when the line was routed
    pc,               \* "reading", "done" (script ended), "crashed" (NameError)
    foundTable,
    foundView,
    foundTrigger,
    currentTableName,
    buffer,           \* list of [txt, src]: txt is the Python string, src the input line number
    fk_buffer,        \* list of [table_name, fk, src]
    a_line,           \* the module-level name a_line, once bound
    a_line_bound,     \* FALSE until the first assignment to a_line
    tableCount,
    out               \* postgres_f: list of [txt, via, src], one entry per write()

vars == <<lines, inp, pc, foundTable, foundView, foundTrigger, currentTableName,
          buffer, fk_buffer, a_line, a_line_bound, tableCount, out>>

-----------------------------------------------------------------------------
(* Program constants. *)

CONST_SERIAL_PRIMARY_KEY == "SERIAL PRIMARY KEY,\n"
CONST_PRIMARY_KEY == "PRIMARY KEY("
CONST_FOREIGN_KEY == "FOREIGN KEY"
CONST_CREATE_TABLE == "CREATE TABLE"
CONST_CREATE_TRIGGER_START == "CREATE TRIGGER"
CONST_CREATE_TRIGGER_END == "END;\n"
CONST_CREATE_VIEW_START == "CREATE VIEW"
CONST_CREATE_VIEW_END == ";\n"
CONST_BOOL_TRUE == "TRUE"
CONST_BOOL_FALSE == "FALSE"
CONST_EXISTS == "EXISTS "
CONST_AUTOINCREMENT == " AUTOINCREMENT"
CONST_UNSIGNED == "UNSIGNED"
CONST_DEFAULT == " DEFAUL"
CONST_DATATYPE_ENUM == "ENUM"
CONST_DATATYPE_YEAR == "YEAR"
CONST_DATATYPE_TEXT == "TEXT"
CONST_DATATYPE_DATEIME == "DATETIME"
CONST_DATATYPE_TIMESTAMP == "TIMESTAMP"
CONST_DATATYPE_BOOLEAN == "BOOLEAN"
CONST_DATATYPE_INT_DEFAULT == "INT DEFAULT"
CONST_DATATYPE_MEDIUMINT == "MEDIUMINT"
CONST_DATATYPE_INTEGER == "INTEGER"
CONST_DATATYPE_TINYINT == "TINYINT"
CONST_DATATYPE_SMALLINT == "SMALLINT"
CONST_DATATYPE_BLOB == "BLOB"
CONST_DATATYPE_BYTEA == "BYTEA"

-----------------------------------------------------------------------------
(* Python str operations. Indices are 0-based as in Python. *)

Min(a, b) == IF a < b THEN a ELSE b

(* s[a:b] for non-negative a, b. *)
Slice(s, a, b) ==
    LET hi == Min(b, Len(s))
    IN  IF a >= hi THEN "" ELSE SubSeq(s, a + 1, hi)

(* s[a:] *)
SliceFrom(s, a) == Slice(s, a, Len(s))

(* s.find(sub, start): lowest index >= start where sub occurs, else -1. *)
FindFrom(s, sub, start) ==
    LET hits == {i \in start..(Len(s) - Len(sub)) : SubSeq(s, i + 1, i + Len(sub)) = sub}
    IN  IF hits = {} THEN -1 ELSE CHOOSE i \in hits : \A j \in hits : i <= j

Find(s, sub) == FindFrom(s, sub, 0)

StartsWith(s, p) == Len(p) <= Len(s) /\ SubSeq(s, 1, Len(p)) = p

EndsWith(s, p) == Len(p) <= Len(s) /\ SubSeq(s, Len(s) - Len(p) + 1, Len(s)) = p

RECURSIVE Replace(_, _, _)
(* s.replace(old, new): every non-overlapping occurrence, left to right. *)
Replace(s, old, new) ==
    LET i == Find(s, old)
    IN  IF i < 0 THEN s
        ELSE Slice(s, 0, i) \o new \o Replace(SliceFrom(s, i + Len(old)), old, new)

IsSpace(c) == c \in {" ", "\n", "\t", "\r"}

RECURSIVE LStrip(_)
LStrip(s) == IF Len(s) > 0 /\ IsSpace(SubSeq(s, 1, 1)) THEN LStrip(SliceFrom(s, 1)) ELSE s

RECURSIVE RStrip(_)
RStrip(s) ==
    IF Len(s) > 0 /\ IsSpace(SubSeq(s, Len(s), Len(s)))
    THEN RStrip(Slice(s, 0, Len(s) - 1)) ELSE s

(* s.strip() *)
Strip(s) == RStrip(LStrip(s))

-----------------------------------------------------------------------------
(* Helper functions of the script. *)

get_table_name(line) ==
    LET pt1 == Find(line, CONST_EXISTS)
    IN  IF pt1 >= 0
        THEN LET p1 == pt1 + Len(CONST_EXISTS)
                 pt2 == Find(line, " (")
             IN  IF pt2 > p1 THEN Slice(line, p1, pt2) ELSE ""
        ELSE ""

modify_primary_key_syntax(field_name) ==
    LET pt1 == Find(field_name, " ")
    IN  IF pt1 >= 0
        THEN Slice(field_name, 0, pt1 + 1) \o CONST_SERIAL_PRIMARY_KEY
        ELSE field_name

-----------------------------------------------------------------------------
(* The find-and-replace steps at the top of the loop body.                 *)

(* line.replace("\r", ""); line.replace("\t", " ").strip() + "\n" *)
normalize_whitespace(line) ==
    Strip(Replace(Replace(line, "\r", ""), "\t", " ")) \o "\n"

strip_quotes(line) == Replace(line, "\"", "")

(* The boolean rewrite without the test for the BOOLEAN keyword. *)
rewrite_boolean_unguarded(line) ==
    LET l1 == Replace(line, CONST_DATATYPE_BOOLEAN, CONST_DATATYPE_INTEGER)
    IN  IF Find(l1, CONST_BOOL_TRUE) >= 0 THEN Replace(l1, CONST_BOOL_TRUE, "1")
        ELSE IF Find(l1, CONST_BOOL_FALSE) >= 0 THEN Replace(l1, CONST_BOOL_FALSE, "0")
        ELSE l1

rewrite_boolean(line) ==
    IF Find(line, CONST_DATATYPE_BOOLEAN) >= 0
    THEN LET l1 == Replace(line, CONST_DATATYPE_BOOLEAN, CONST_DATATYPE_INTEGER)
         IN  IF Find(l1, CONST_BOOL_TRUE) >= 0 THEN Replace(l1, CONST_BOOL_TRUE, "1")
             ELSE IF Find(l1, CONST_BOOL_FALSE) >= 0 THEN Replace(l1, CONST_BOOL_FALSE, "0")
             ELSE l1
    ELSE line

rewrite_datatypes(line) ==
    LET l1 == Replace(line, CONST_DATATYPE_ENUM, CONST_DATATYPE_TEXT)
        l2 == Replace(l1, CONST_DATATYPE_YEAR, CONST_DATATYPE_TEXT)
        l3 == Replace(l2, CONST_DATATYPE_INT_DEFAULT, CONST_DATATYPE_INTEGER \o " DEFAULT")
        l4 == Replace(l3, CONST_DATATYPE_MEDIUMINT, CONST_DATATYPE_INTEGER)
        l5 == Replace(l4, CONST_DATATYPE_TINYINT, CONST_DATATYPE_SMALLINT)
    IN  Replace(l5, CONST_DATATYPE_BLOB, CONST_DATATYPE_BYTEA)

(* A field name followed by " DEFAUL" and no datatype gets TEXT. *)
patch_missing_datatype(line) ==
    LET pt == Find(line, " ")
    IN  IF pt > 0 /\ Slice(line, pt + 1, pt + 8) = CONST_DEFAULT
        THEN Slice(line, 0, pt + 1) \o CONST_DATATYPE_TEXT \o SliceFrom(line, pt + 1)
        ELSE line

(* All substitutions, in the order the loop applies them. *)
token_substitutions(raw) ==
    LET l1 == normalize_whitespace(raw)
        l2 == strip_quotes(l1)
        l3 == Replace(l2, CONST_DATATYPE_DATEIME, CONST_DATATYPE_TIMESTAMP)
        l4 == Replace(l3, CONST_UNSIGNED, "")
        l5 == rewrite_boolean(l4)
        l6 == rewrite_datatypes(l5)
    IN  patch_missing_datatype(l6)

-----------------------------------------------------------------------------
(* Finalization of a CREATE TABLE block, run when the line ");" is read.   *)
(* A block is a list of [txt, src]; only txt is the program's data.        *)

(* The test the primary-key scan applies to one line. *)
is_autoincrement_pk(a) ==
    LET pt1 == Find(a, CONST_PRIMARY_KEY)
    IN  /\ pt1 >= 0
        /\ FindFrom(a, " ", pt1 + Len(CONST_PRIMARY_KEY)) >= pt1 + Len(CONST_PRIMARY_KEY)
        /\ Find(a, CONST_AUTOINCREMENT) >= 0

(* Index of the line the scan stops at (break), 0 when it runs to the end. *)
pk_line_index(buf) ==
    LET hits == {i \in 1..Len(buf) : is_autoincrement_pk(buf[i].txt)}
    IN  IF hits = {} THEN 0 ELSE CHOOSE i \in hits : \A j \in hits : i <= j

(* pk_field_name = a_line[pt1:pt2] of that line, "" when there is none. *)
pk_field_name(buf) ==
    LET k == pk_line_index(buf)
    IN  IF k = 0 THEN ""
        ELSE LET a == buf[k].txt
                 pt1 == Find(a, CONST_PRIMARY_KEY) + Len(CONST_PRIMARY_KEY)
                 pt2 == FindFrom(a, " ", pt1)
             IN  Slice(a, pt1, pt2)

(* buffer[idx] = "" for the PRIMARY KEY(... AUTOINCREMENT) line. *)
delete_pk_line(buf) ==
    LET k == pk_line_index(buf)
    IN  IF k = 0 THEN buf ELSE [buf EXCEPT ![k].txt = ""]

(* Index of the first line that contains the field name, 0 when none does. *)
pk_column_index(buf, name) ==
    LET hits == {i \in 1..Len(buf) : Find(buf[i].txt, name) >= 0}
    IN  IF hits = {} THEN 0 ELSE CHOOSE i \in hits : \A j \in hits : i <= j

(* The second loop: rewrite the first line that contains pk_field_name. *)
rewrite_pk_column(buf, name) ==
    IF name = "" THEN buf
    ELSE LET k == pk_column_index(buf, name)
         IN  IF k = 0 THEN buf
             ELSE [buf EXCEPT ![k].txt = modify_primary_key_syntax(buf[k].txt)]

(* The line the reverse scan stops at: the last one that is neither ""    *)
(* nor the terminator; 0 when there is none.                              *)
last_content_index(buf) ==
    LET hits == {i \in 1..Len(buf) : buf[i].txt # "" /\ ~StartsWith(buf[i].txt, ");")}
    IN  IF hits = {} THEN 0 ELSE CHOOSE i \in hits : \A j \in hits : i >= j

(* The third loop: drop the comma of the line before the terminator. *)
fix_trailing_comma(buf) ==
    LET k == last_content_index(buf)
    IN  IF k # 0 /\ EndsWith(buf[k].txt, ",\n")
        THEN [buf EXCEPT ![k].txt = Slice(buf[k].txt, 0, Len(buf[k].txt) - 2) \o "\n"]
        ELSE buf

(* The three rewrites in order. *)
finalize_block(buf) ==
    fix_trailing_comma(rewrite_pk_column(delete_pk_line(buf), pk_field_name(buf)))

(* The write loop: every line of the block that is not "". *)
block_writes(buf) ==
    LET kept == SelectSeq(buf, LAMBDA e : e.txt # "")
    IN  [i \in 1..Len(kept) |-> [txt |-> kept[i].txt, via |-> "block", src |-> kept[i].src]]

-----------------------------------------------------------------------------
(* The code after the loop. *)

(* a_line after the two fix-ups of the emission loop. *)
alter_a_line(fk) ==
    LET a0 == fk.fk
        a1 == IF StartsWith(a0, "\t") THEN SliceFrom(a0, 1) ELSE a0
    IN  IF EndsWith(a1, ",\n") THEN Slice(a1, 0, Len(a1) - 2) \o ";\n" ELSE a1

(* The text written for one entry of fk_buffer. *)
alter_table_line(fk) == "ALTER TABLE " \o fk.table_name \o " ADD " \o alter_a_line(fk)

alter_writes(fkb) ==
    [i \in 1..Len(fkb) |-> [txt |-> alter_table_line(fkb[i]), via |-> "alter", src |-> fkb[i].src]]

-----------------------------------------------------------------------------
(* Tests of the loop body. *)

is_table_start(line) == StartsWith(line, CONST_CREATE_TABLE)

(* The capture test without the test of the table name. *)
is_fk_capture_unguarded(line, name) == Find(line, CONST_FOREIGN_KEY) >= 0

(* A foreign-key line is captured only under a non-empty table name. *)
is_fk_capture(line, name) == Find(line, CONST_FOREIGN_KEY) >= 0 /\ name # ""

is_trigger_start(line) == StartsWith(line, CONST_CREATE_TRIGGER_START)

is_view_start(line) == StartsWith(line, CONST_CREATE_VIEW_START)

is_table_end(line) == StartsWith(line, ");")

(* The trigger test with the view terminator in place of END;. *)
trigger_ends_on_semicolon(a) == Find(a, CONST_CREATE_VIEW_END) >= 0

(* The tests of the trigger and view branches; both read a_line. *)
trigger_ends(a) == Find(a, CONST_CREATE_TRIGGER_END) >= 0

view_ends(a) == Find(a, CONST_CREATE_VIEW_END) >= 0

normal_writes(line, n) ==
    IF line # "" THEN <<[txt |-> line, via |-> "normal", src |-> n]>> ELSE <<>>

-----------------------------------------------------------------------------
(* State after the module-level assignments, before the first line.        *)

InitState ==
    /\ inp = <<>>
    /\ pc = "reading"
    /\ foundTable = FALSE
    /\ foundView = FALSE
    /\ foundTrigger = FALSE
    /\ currentTableName = ""
    /\ buffer = <<>>
    /\ fk_buffer = <<>>
    /\ a_line = ""
    /\ a_line_bound = FALSE
    /\ tableCount = 0
    /\ out = <<>>

(* One iteration of "for line in sqlite_f".  A read of the unbound name    *)
(* a_line raises NameError and ends the script; the with-blocks close the  *)
(* files, so what was written stays written.                                *)
ReadLine(raw) ==
    /\ pc = "reading"
    /\ Len(inp) < MaxLines
    /\ \E line1 \in {token_substitutions(raw)} :
       LET n        == Len(inp) + 1
           starts   == is_table_start(line1)
           buffer1  == IF starts THEN <<>> ELSE buffer
           name1    == IF starts THEN get_table_name(line1) ELSE currentTableName
           table1   == foundTable \/ starts
           captured == is_fk_capture(line1, name1)
           fk1      == IF captured
                       THEN Append(fk_buffer, [table_name |-> name1, fk |-> line1, src |-> n])
                       ELSE fk_buffer
           line2    == IF captured THEN "" ELSE line1
           trigger1 == foundTrigger \/ is_trigger_start(line2)
           view1    == foundView \/ is_view_start(line2)
           buffer2  == Append(buffer1, [txt |-> line2, src |-> n])
           final    == finalize_block(buffer2)
       IN  /\ inp' = Append(inp, [raw |-> raw, line |-> line1, in_table |-> table1])
           /\ lines' = lines
           /\ fk_buffer' = fk1
           /\ IF table1
              THEN /\ foundTrigger' = trigger1
                   /\ foundView' = view1
                   /\ pc' = pc
                   /\ IF is_table_end(line2)
                      THEN /\ foundTable' = FALSE
                           /\ buffer' = final
                           /\ out' = out \o block_writes(final)
                           /\ a_line' = final[Len(final)].txt
                           /\ a_line_bound' = TRUE
                           /\ currentTableName' = ""
                           /\ tableCount' = tableCount + 1
                      ELSE /\ foundTable' = TRUE
                           /\ buffer' = buffer2
                           /\ currentTableName' = name1
                           /\ UNCHANGED <<out, a_line, a_line_bound, tableCount>>
              ELSE /\ foundTable' = FALSE
                   /\ buffer' = buffer1
                   /\ currentTableName' = name1
                   /\ UNCHANGED <<a_line, a_line_bound, tableCount>>
                   /\ IF trigger1
                      THEN /\ foundView' = view1
                           /\ out' = out
                           /\ IF a_line_bound
                              THEN /\ foundTrigger' = ~trigger_ends(a_line)
                                   /\ pc' = pc
                              ELSE /\ foundTrigger' = TRUE
                                   /\ pc' = "crashed"
                      ELSE IF view1
                      THEN /\ foundTrigger' = FALSE
                           /\ out' = out
                           /\ IF a_line_bound
                              THEN /\ foundView' = ~view_ends(a_line)
                                   /\ pc' = pc
                              ELSE /\ foundView' = TRUE
                                   /\ pc' = "crashed"
                      ELSE /\ foundTrigger' = FALSE
                           /\ foundView' = FALSE
                           /\ pc' = pc
                           /\ out' = out \o normal_writes(line2, n)

(* End of input: the deferred ALTER TABLE lines, then COMMIT. *)
EndOfInput ==
    /\ pc = "reading"
    /\ pc' = "done"
    /\ out' = out \o alter_writes(fk_buffer)
                  \o <<[txt |-> "COMMIT;\n", via |-> "commit", src |-> 0]>>
    /\ a_line' = IF Len(fk_buffer) > 0 THEN alter_a_line(fk_buffer[Len(fk_buffer)]) ELSE a_line
    /\ a_line_bound' = (a_line_bound \/ Len(fk_buffer) > 0)
    /\ UNCHANGED <<lines, inp, foundTable, foundView, foundTrigger, currentTableName,
                   buffer, fk_buffer, tableCount>>

Next == (\E raw \in lines : ReadLine(raw)) \/ EndOfInput

-----------------------------------------------------------------------------
(* Inputs.  Each specification reads files made of one small set of lines. *)

TableStart == "CREATE TABLE IF NOT EXISTS actor (\n"
TableEnd == ");\n"
TriggerStart == "CREATE TRIGGER actor_ai AFTER INSERT ON actor\n"
TriggerEnd == "END;\n"
ViewStart == "CREATE VIEW v AS SELECT a\n"
ViewEnd == "  FROM actor;\n"
InsertRow == "INSERT INTO actor VALUES (1,'a \"DATETIME\"');\n"

ModeLines == {TableStart, TableEnd, TriggerStart, TriggerEnd, ViewStart, ViewEnd, InsertRow}

Init == InitState /\ lines = ModeLines

Spec == Init /\ [][Next]_vars

(* Files of table definitions with foreign keys. *)
TableStartNoExists == "CREATE TABLE log (\n"
Column == "  actor_id INT NOT NULL,\n"
FkComma == "  FOREIGN KEY(city_id) REFERENCES city(city_id),\n"
FkLast == "  FOREIGN KEY(city_id) REFERENCES city(city_id)\n"

FkLines == {TableStart, TableStartNoExists, Column, FkComma, FkLast, TableEnd}

InitFk == InitState /\ lines = FkLines

SpecFk == InitFk /\ [][Next]_vars

-----------------------------------------------------------------------------
(* Properties. *)

(* Positions in out of the writes of the given kind that came from input line i. *)
WritesOf(kind, i) == {k \in 1..Len(out) : out[k].via = kind /\ out[k].src = i}

(* The rewritten CREATE TABLE line of the block input line i lies in. *)
BlockStartOf(i) ==
    LET starts == {j \in 1..i : is_table_start(inp[j].line)}
    IN  inp[CHOOSE j \in starts : \A h \in starts : h <= j].line

(* Input line i is a foreign-key line read while a table block is open. *)
FkInBlock(i) == inp[i].in_table /\ Find(inp[i].line, CONST_FOREIGN_KEY) >= 0

(* C1: when the run is done, every foreign-key line read while a CREATE    *)
(* TABLE block was open has exactly one ALTER TABLE line in the output,    *)
(* tagged with the table name of its block; the ALTER TABLE lines come     *)
(* after every block line and every normal line, in input order.           *)
C1_EveryFkDeferred ==
    pc = "done" =>
        /\ \A i \in 1..Len(inp) :
              FkInBlock(i) =>
                  /\ Cardinality(WritesOf("alter", i)) = 1
                  /\ \A k \in WritesOf("alter", i) :
                        StartsWith(out[k].txt,
                            "ALTER TABLE " \o get_table_name(BlockStartOf(i)) \o " ADD ")
        /\ \A k, m \in 1..Len(out) :
              (out[k].via = "alter" /\ out[m].via \in {"block", "normal"}) => m < k
        /\ \A k, m \in 1..Len(out) :
              (out[k].via = "alter" /\ out[m].via = "alter" /\ k < m) => out[k].src < out[m].src

(* C10: every ALTER TABLE line written ends with ";". *)
C10_AlterTerminated ==
    \A k \in 1..Len(out) : out[k].via = "alter" => EndsWith(out[k].txt, ";\n")

-----------------------------------------------------------------------------
(* The process mode the transition table of the design assigns to a prefix *)
(* of the input: the yardstick the routing properties are stated against.  *)

ModeStep(m, l) ==
    CASE m = "Normal" ->
             IF is_table_start(l) THEN "InTable"
             ELSE IF is_trigger_start(l) THEN "InTrigger"
             ELSE IF is_view_start(l) THEN "InView"
             ELSE "Normal"
      [] m = "InTable" -> IF is_table_end(l) THEN "Normal" ELSE "InTable"
      [] m = "InTrigger" ->
             IF Find(l, CONST_CREATE_TRIGGER_END) >= 0 THEN "Normal" ELSE "InTrigger"
      [] m = "InView" ->
             IF Find(l, CONST_CREATE_VIEW_END) >= 0 THEN "Normal" ELSE "InView"

RECURSIVE ModeAfter(_)
(* The mode after the first k lines of the input. *)
ModeAfter(k) == IF k = 0 THEN "Normal" ELSE ModeStep(ModeAfter(k - 1), inp[k].line)

(* Input line i is outside every table, trigger and view block. *)
Outside(i) == ModeAfter(i - 1) = "Normal" /\ ModeAfter(i) = "Normal"

(* Input line i belongs to a view: its start line, a body line or its last line. *)
InViewBlock(i) == ModeAfter(i - 1) = "InView" \/ ModeAfter(i) = "InView"

(* Positions in out of all the writes that came from input line i. *)
AllWritesOf(i) == {k \in 1..Len(out) : out[k].src = i}

(* C2: the run never stops before end of input, and once it is done the    *)
(* last line of the output is COMMIT;, after every ALTER TABLE line.       *)
C2_CommitLast ==
    /\ pc # "crashed"
    /\ pc = "done" =>
          /\ out # <<>>
          /\ out[Len(out)].txt = "COMMIT;\n"
          /\ \A k \in 1..Len(out) - 1 : out[k].via # "commit"

(* No trigger or view of the input starts inside a table block. *)
BlocksNotNested ==
    \A j \in 1..Len(inp) :
        inp[j].in_table => ~is_trigger_start(inp[j].line) /\ ~is_view_start(inp[j].line)

(* C3: every input line outside the table, trigger and view blocks is      *)
(* written exactly once, as rewritten, and these lines keep their order    *)
(* (stated for inputs whose blocks are not nested).                        *)
C3_OutsideLinesWritten ==
    BlocksNotNested =>
    /\ \A i \in 1..Len(inp) :
          Outside(i) =>
              /\ Cardinality(AllWritesOf(i)) = 1
              /\ \A k \in AllWritesOf(i) : out[k].txt = inp[i].line
    /\ \A k, m \in 1..Len(out) :
          (k < m /\ out[k].src > 0 /\ out[m].src > 0
                /\ Outside(out[k].src) /\ Outside(out[m].src)) => out[k].src < out[m].src

(* C5: while the input is inside a view the driver is in view mode, and no *)
(* line of a view is written.                                              *)
C5_ViewSuppressed ==
    /\ (pc = "reading" /\ ModeAfter(Len(inp)) = "InView") => (foundView /\ ~foundTable)
    /\ \A i \in 1..Len(inp) : InViewBlock(i) => AllWritesOf(i) = {}

(* The values of a data line: its text from the keyword VALUES on. *)
ValuesOf(l) == IF Find(l, "VALUES") >= 0 THEN SliceFrom(l, Find(l, "VALUES")) ELSE ""

(* C6: the values of every INSERT line written in normal mode are those of *)
(* the input line.                                                         *)
C6_RowDataPreserved ==
    \A k \in 1..Len(out) :
        (out[k].via = "normal" /\ StartsWith(inp[out[k].src].raw, "INSERT")) =>
            ValuesOf(out[k].txt) = ValuesOf(inp[out[k].src].raw)

(* C9: the run does not finish normally while a CREATE TABLE block is open. *)
C9_UnterminatedBlockIsError == ~(pc = "done" /\ foundTable)

-----------------------------------------------------------------------------
(* Files with triggers around table blocks; one terminator line carries a  *)
(* trailing comment.                                                       *)
TableEndComment == "); -- END;\n"

TriggerLines == {TableStart, TableEnd, TableEndComment, TriggerStart, TriggerEnd, InsertRow}

InitTrigger == InitState /\ lines = TriggerLines

SpecTrigger == InitTrigger /\ [][Next]_vars

(* Input lines s..e are a trigger: s starts with CREATE TRIGGER and e is   *)
(* the first line from s on that contains END;.                            *)
TriggerBlock(s, e) ==
    /\ s <= e
    /\ is_trigger_start(inp[s].line)
    /\ Find(inp[e].line, CONST_CREATE_TRIGGER_END) >= 0
    /\ \A i \in s..(e - 1) : Find(inp[i].line, CONST_CREATE_TRIGGER_END) < 0

PlainTerminatorsBefore(s) ==
    \A j \in 1..(s - 1) :
        (inp[j].in_table /\ is_table_end(inp[j].line)) =>
            Find(inp[j].line, CONST_CREATE_TRIGGER_END) < 0

-----------------------------------------------------------------------------
(* Files of table definitions with an autoincrementing primary key.        *)
OtherColumn == "  old_actor_id INT,\n"
PkLine == "  PRIMARY KEY(\"actor_id\" AUTOINCREMENT),\n"
Blank == "\n"

BlockLines == {TableStart, OtherColumn, Column, PkLine, Blank, TableEnd}

InitBlock == InitState /\ lines = BlockLines

SpecBlock == InitBlock /\ [][Next]_vars

(* A block has just been completed and written: buffer still holds it. *)
BlockCompleted == ~foundTable /\ buffer # <<>> /\ is_table_end(inp[Len(inp)].line)

(* The lines of the completed block that are neither blank nor the terminator. *)
ContentLines ==
    {i \in 1..Len(buffer) : Strip(buffer[i].txt) # "" /\ ~is_table_end(buffer[i].txt)}

(* C7: in a completed block the last line before the terminator that is   *)
(* not blank does not end with a comma, and every earlier line of the      *)
(* block that ended with a comma when it was read still does.              *)
C7_NoCommaBeforeTerminator ==
    BlockCompleted =>
        \A i \in ContentLines :
            IF \A j \in ContentLines : j <= i
            THEN ~EndsWith(buffer[i].txt, ",\n")
            ELSE EndsWith(inp[buffer[i].src].line, ",\n") => EndsWith(buffer[i].txt, ",\n")

(* The column a PRIMARY KEY(<column> AUTOINCREMENT) line names. *)
PkColumnOf(l) ==
    Slice(l, Find(l, CONST_PRIMARY_KEY) + Len(CONST_PRIMARY_KEY),
             FindFrom(l, " ", Find(l, CONST_PRIMARY_KEY) + Len(CONST_PRIMARY_KEY)))

(* The lines of the completed block, as read, that are PRIMARY KEY(<column> AUTOINCREMENT). *)
PkLinesRead == {i \in 1..Len(buffer) : is_autoincrement_pk(inp[buffer[i].src].line)}

(* The lines of the completed block, as read, that declare the column c. *)
DeclarationsOf(c) == {i \in 1..Len(buffer) : StartsWith(inp[buffer[i].src].line, c \o " ")}

(* C8: in a completed block with exactly one autoincrementing primary-key  *)
(* column, no emitted line contains PRIMARY KEY( and the line that         *)
(* declares the column is the column name followed by SERIAL PRIMARY KEY.  *)
C8_SerialPrimaryKey ==
    (BlockCompleted /\ Cardinality(PkLinesRead) = 1) =>
        \A p \in PkLinesRead :
            LET c == PkColumnOf(inp[buffer[p].src].line)
            IN  Cardinality(DeclarationsOf(c)) = 1 =>
                    /\ \A i \in 1..Len(buffer) : Find(buffer[i].txt, CONST_PRIMARY_KEY) < 0
                    /\ \A i \in DeclarationsOf(c) :
                          buffer[i].txt \in {c \o " SERIAL PRIMARY KEY,\n",
                                             c \o " SERIAL PRIMARY KEY\n"}

-----------------------------------------------------------------------------
(* Files of table definitions whose primary key is declared inline.        *)
SingleLineTable == "CREATE TABLE t (id INTEGER PRIMARY KEY AUTOINCREMENT, name TEXT);\n"
InlinePk == "  id INTEGER PRIMARY KEY AUTOINCREMENT,\n"
TypedColumn == "  flags TINYINT UNSIGNED NOT NULL,\n"

InlineLines == {TableStart, SingleLineTable, InlinePk, TypedColumn, TableEnd, InsertRow}

InitInline == InitState /\ lines = InlineLines

SpecInline == InitInline /\ [][Next]_vars

(* Input line i is a whole table definition on one line. *)
IsSingleLineTable(i) == is_table_start(inp[i].line) /\ EndsWith(inp[i].line, ");\n")

(* C11: a table definition given on one line is written once it is read,   *)
(* with id followed by SERIAL PRIMARY KEY and no PRIMARY KEY( clause; it   *)
(* is not held back in the table buffer.                                   *)
C11_SingleLineTableEmitted ==
    \A i \in 1..Len(inp) :
        IsSingleLineTable(i) =>
            /\ i = Len(inp) => ~foundTable
            /\ \E k \in AllWritesOf(i) :
                  /\ Find(out[k].txt, "id SERIAL PRIMARY KEY") >= 0
                  /\ Find(out[k].txt, CONST_PRIMARY_KEY) < 0

(* The keywords of the source dialect. *)
SourceKeywords ==
    {CONST_DATATYPE_ENUM, CONST_DATATYPE_YEAR, CONST_DATATYPE_MEDIUMINT, CONST_DATATYPE_TINYINT,
     CONST_DATATYPE_BLOB, CONST_UNSIGNED, "AUTOINCREMENT"}

(* C12: no written line of a table block contains a keyword of the source dialect. *)
C12_NoResidualKeyword ==
    \A k \in 1..Len(out) :
        out[k].via = "block" => \A w \in SourceKeywords : Find(out[k].txt, w) < 0

-----------------------------------------------------------------------------
(* Files of lines with boolean and integer types.                          *)
BoolTrue == "  active BOOLEAN DEFAULT TRUE,\n"
BoolFalse == "  deleted BOOLEAN DEFAULT FALSE,\n"
LiteralsOnly == "INSERT INTO flags VALUES (TRUE, FALSE);\n"
MediumDefault == "  amount MEDIUMINT DEFAULT 0,\n"
TinyDefault == "  rating TINYINT DEFAULT 1,\n"
IntDefault == "  length INT DEFAULT 0,\n"

BoolLines == {TableStart, BoolTrue, BoolFalse, LiteralsOnly, TableEnd}

InitBool == InitState /\ lines = BoolLines

SpecBool == InitBool /\ [][Next]_vars

IntLines == {MediumDefault, TinyDefault, IntDefault}

InitInt == InitState /\ lines = IntLines

SpecInt == InitInt /\ [][Next]_vars

(* The raw line after the steps that precede the type rules. *)
Unquoted(raw) == strip_quotes(normalize_whitespace(raw))

(* Number of places where sub occurs in s. *)
Occurrences(s, sub) ==
    Cardinality({i \in 0..(Len(s) - Len(sub)) : SubSeq(s, i + 1, i + Len(sub)) = sub})

(* C13: a line with BOOLEAN and one kind of boolean literal is rewritten   *)
(* with INTEGER for BOOLEAN and 1 for TRUE (0 for FALSE), so that          *)
(* "active BOOLEAN DEFAULT TRUE," becomes "active INTEGER DEFAULT 1,"; a   *)
(* line without BOOLEAN keeps its TRUE and FALSE literals.                 *)
C13_BooleanRewrite ==
    \A i \in 1..Len(inp) :
        LET n == Unquoted(inp[i].raw)
            b == Find(n, CONST_DATATYPE_BOOLEAN) >= 0
            t == Find(n, CONST_BOOL_TRUE) >= 0
            f == Find(n, CONST_BOOL_FALSE) >= 0
        IN  /\ (b /\ t /\ ~f) =>
                  inp[i].line = Replace(Replace(n, CONST_DATATYPE_BOOLEAN, CONST_DATATYPE_INTEGER),
                                        CONST_BOOL_TRUE, "1")
            /\ (b /\ f /\ ~t) =>
                  inp[i].line = Replace(Replace(n, CONST_DATATYPE_BOOLEAN, CONST_DATATYPE_INTEGER),
                                        CONST_BOOL_FALSE, "0")
            /\ ~b =>
                  /\ Occurrences(inp[i].line, CONST_BOOL_TRUE) = Occurrences(n, CONST_BOOL_TRUE)
                  /\ Occurrences(inp[i].line, CONST_BOOL_FALSE) = Occurrences(n, CONST_BOOL_FALSE)
            /\ inp[i].raw = BoolTrue => inp[i].line = "active INTEGER DEFAULT 1,\n"

(* A TRUE line, a FALSE line and a line without BOOLEAN have been read and written. *)
C13_Witness ==
    /\ \E k \in 1..Len(out) : out[k].txt = "active INTEGER DEFAULT 1,\n"
    /\ \E k \in 1..Len(out) : out[k].txt = "deleted INTEGER DEFAULT 0,\n"
    /\ \E k \in 1..Len(out) : out[k].txt = "INSERT INTO flags VALUES (TRUE, FALSE);\n"

(* Each integer type keyword of a line replaced once, as a whole word. *)
IntegerTypesOnce(n) ==
    Replace(Replace(Replace(n, CONST_DATATYPE_MEDIUMINT, CONST_DATATYPE_INTEGER),
                    CONST_DATATYPE_TINYINT, CONST_DATATYPE_SMALLINT),
            " INT DEFAULT", " INTEGER DEFAULT")

(* C19: in a line without BOOLEAN, MEDIUMINT becomes exactly INTEGER,      *)
(* TINYINT exactly SMALLINT and INT DEFAULT becomes INTEGER DEFAULT,       *)
(* whether or not DEFAULT follows the keyword.                             *)
C19_IntegerTypesOnce ==
    \A i \in 1..Len(inp) :
        Find(inp[i].raw, CONST_DATATYPE_BOOLEAN) < 0 =>
            inp[i].line = IntegerTypesOnce(Unquoted(inp[i].raw))

-----------------------------------------------------------------------------
(* Mode properties of the driver. *)

(* Every table, trigger and view of the input starts outside the other blocks. *)
WellFramed ==
    \A j \in 1..Len(inp) :
        (\/ is_table_start(inp[j].line)
         \/ is_trigger_start(inp[j].line)
         \/ is_view_start(inp[j].line)) => ModeAfter(j - 1) = "Normal"

(* Input line i is the first line containing END; after a trigger started. *)
EndsTrigger(i) == i >= 1 /\ ModeAfter(i - 1) = "InTrigger" /\ ModeAfter(i) = "Normal"

(* C14: the first line containing END; after a CREATE TRIGGER line returns *)
(* the driver to normal mode; that line is discarded and the next line     *)
(* outside a table is written.                                             *)
C14_TriggerEndReturnsToNormal ==
    WellFramed =>
        /\ (pc = "reading" /\ EndsTrigger(Len(inp))) =>
              (~foundTrigger /\ AllWritesOf(Len(inp)) = {})
        /\ \A i \in 2..Len(inp) :
              (EndsTrigger(i - 1) /\ Outside(i)) => AllWritesOf(i) # {}

(* Number of mode flags that are set. *)
FlagsSet ==
    (IF foundTable THEN 1 ELSE 0) + (IF foundTrigger THEN 1 ELSE 0) + (IF foundView THEN 1 ELSE 0)

(* C15: at most one of foundTable, foundTrigger and foundView is true. *)
C15_ModeExclusive == WellFramed => FlagsSet <= 1

-----------------------------------------------------------------------------
(* Foreign keys outside the well-formed case (checked on the files of SpecFk). *)

(* Input line i is a foreign-key line of a block whose table name is empty. *)
FkInUnnamedBlock(i) == FkInBlock(i) /\ get_table_name(BlockStartOf(i)) = ""

(* C16: a foreign-key line read in a block with an empty table name is     *)
(* stored in the deferral queue under the empty name, is not written with  *)
(* the block, and has an ALTER TABLE line once the run is done.            *)
C16_UnnamedFkDeferred ==
    \A i \in 1..Len(inp) :
        FkInUnnamedBlock(i) =>
            /\ \E q \in 1..Len(fk_buffer) : fk_buffer[q].src = i /\ fk_buffer[q].table_name = ""
            /\ WritesOf("block", i) = {}
            /\ pc = "done" => Cardinality(WritesOf("alter", i)) = 1

(* The step reads a line containing FOREIGN KEY, which starts no block,    *)
(* while the driver is in normal mode.                                     *)
NormalFkStep ==
    /\ pc = "reading"
    /\ ~foundTable /\ ~foundTrigger /\ ~foundView
    /\ Len(inp') = Len(inp) + 1
    /\ Find(inp'[Len(inp')].line, CONST_FOREIGN_KEY) >= 0
    /\ ~is_table_start(inp'[Len(inp')].line)
    /\ ~is_trigger_start(inp'[Len(inp')].line)
    /\ ~is_view_start(inp'[Len(inp')].line)

StaysNormal == ~foundTable' /\ ~foundTrigger' /\ ~foundView' /\ pc' = "reading"

C20_AlterNamesEmittedTable ==
    pc = "done" =>
        \A q \in 1..Len(fk_buffer) :
            \A k \in WritesOf("alter", fk_buffer[q].src) :
                \E m \in 1..(k - 1) :
                    /\ out[m].via = "block"
                    /\ is_table_start(out[m].txt)
                    /\ get_table_name(out[m].txt) = fk_buffer[q].table_name

-----------------------------------------------------------------------------
(* Frame of the primary-key column rewrite (checked on the files of SpecBlock). *)

(* The line l without the comma that ends it. *)
WithoutComma(l) == IF EndsWith(l, ",\n") THEN Slice(l, 0, Len(l) - 2) \o "\n" ELSE l

(* C18: in a completed block whose PRIMARY KEY(<column> AUTOINCREMENT)     *)
(* line names a column, every line other than that line and the            *)
(* declaration of the column is emitted as it was read (but for the comma  *)
(* before the terminator), also when it contains the name as a substring.  *)
C18_OnlyDeclarationRewritten ==
    (BlockCompleted /\ Cardinality(PkLinesRead) = 1) =>
        \A p \in PkLinesRead :
            LET c == PkColumnOf(inp[buffer[p].src].line)
            IN  Cardinality(DeclarationsOf(c)) = 1 =>
                    \A i \in 1..Len(buffer) :
                        (i # p /\ i \notin DeclarationsOf(c)) =>
                            buffer[i].txt \in {inp[buffer[i].src].line,
                                               WithoutComma(inp[buffer[i].src].line)}

====
